---- MODULE Spec2Model ----
(***************************************************************************)
(* a9-std: UUID-tagged JSON serialization with prototype hydration.        *)
(*                                                                         *)
(* The model follows src/unnamed/part_000 (the library: class Struct with  *)
(* its two registry maps, the `_` accessor, toJSON, parse and register)    *)
(* and the way the tests and the demo drive it (JSON.stringify on a value  *)
(* graph, Struct.parse on the text).                                       *)
(*                                                                         *)
(* Values are trees of tagged records:                                     *)
(*   [k |-> "null"]  [k |-> "bool", b]  [k |-> "num", n]  [k |-> "nan"]    *)
(*   [k |-> "str", s]  [k |-> "arr", items]                                *)
(*   [k |-> "obj", proto, keys, vals]                                      *)
(* An object carries its prototype and its own enumerable properties in    *)
(* own-property enumeration order (keys[i] holds vals[i]).                 *)
(* JSON text is a sequence of lexemes, each lexeme a string.               *)
(***************************************************************************)
EXTENDS Integers, Sequences, FiniteSets, TLC

VARIABLES
    ID_TO_PROTO,    \* static ID_TO_PROTO = new Map<UUID, object>()
    PROTO_TO_ID,    \* static PROTO_TO_ID = new WeakMap<object, UUID>()
    call,           \* the call the program made last, with its outcome
    registered      \* the register calls made so far, in order: <<Ctor, id>>

vars == <<ID_TO_PROTO, PROTO_TO_ID, call, registered>>

(***************************************************************************)
(* Bounds of the model.                                                    *)
(***************************************************************************)
\* nesting depth of the value graphs handed to JSON.stringify
MaxDepth == 2
\* number of lexemes of the short texts handed to Struct.parse
MaxTextLen == 2
\* layers of the nested optional value Some(Some(...))
MaxNest == 3
\* number of register calls of one run of the program
MaxRegisters == 2
\* number of register calls of a run that only registers
MaxRegistryCalls == 3
\* number of register calls of a run whose decode calls are followed step by
\* step
MaxWalkRegisters == 1
\* number of register calls, and nesting depth of the inputs, of a run that
\* makes the same call twice
MaxPairRegisters == 1
MaxPairDepth == 1
\* number of register calls of a run that encodes cyclic value graphs
MaxCycleRegisters == 2
\* nested calls of the serializer the engine's call stack holds: more than
\* the depth of any acyclic input
MaxCallStack == 8

(***************************************************************************)
(* Prototypes, constructors, identifiers.                                  *)
(***************************************************************************)
ObjectProto == "Object.prototype"
StructProto == "Struct.prototype"

\* the classes a caller registers: Some (Option extends Struct, Some extends
\* Option) and Sub, a class that extends Some
Ctors == {"Some", "Sub"}

Prototype(Ctor) == Ctor \o ".prototype"

Protos == {Prototype(c) : c \in Ctors}

\* Object.getPrototypeOf of a prototype object: the class hierarchy
ProtoParent(p) ==
    CASE p = "Sub.prototype" -> "Some.prototype"
      [] p = "Some.prototype" -> "Option.prototype"
      [] p = "Twin.prototype" -> "Option.prototype"
      [] p = "Option.prototype" -> StructProto
      [] p = StructProto -> ObjectProto
      [] OTHER -> "null"

RECURSIVE ProtoChain(_)
\* the prototype chain that starts at p, as a set
ProtoChain(p) == IF p = "null" THEN {} ELSE {p} \cup ProtoChain(ProtoParent(p))

\* the members of Struct.prototype (`_` accessor, toJSON) are inherited
IsStruct(p) == StructProto \in ProtoChain(p)

\* the prototype of a class declared word for word like Some, which no
\* caller registers
TwinProto == "Twin.prototype"

\* the descriptors a caller may look up
Descriptors == Protos \cup {TwinProto, "Option.prototype"}

\* the methods a class declares on its prototype
ProtoMembers(p) ==
    CASE p \in {"Some.prototype", TwinProto} -> {"constructor", "isSome", "isNone"}
      [] p = "Option.prototype" -> {"constructor", "unwrapOr"}
      [] OTHER -> {"constructor"}

\* what a prototype object holds: its own prototype and its members
ProtoContent(p) == <<ProtoParent(p), ProtoMembers(p)>>

SomeId == "a30deba3-479f-4d5c-a008-cefe9200884a"
\* identifier strings a caller may hand to register: the type UUID is checked
\* by the compiler only, at run time any string is accepted
Ids == {SomeId, "a-b-c-d-e", ""}

\* an identifier that is never registered
ForeignId == "00000000-0000-0000-0000-000000000000"

HexDigits == {"0", "1", "2", "3", "4", "5", "6", "7", "8", "9",
              "a", "b", "c", "d", "e", "f"}

\* the canonical 8-4-4-4-12 grouped-hex form of an identifier
IsCanonicalUUID(s) ==
    /\ Len(s) = 36
    /\ \A i \in 1..36 :
          IF i \in {9, 14, 19, 24}
          THEN SubSeq(s, i, i) = "-"
          ELSE SubSeq(s, i, i) \in HexDigits

(***************************************************************************)
(* Map and WeakMap.                                                        *)
(***************************************************************************)
Undefined == "undefined"

\* a get that takes two prototype objects with the same content for one key
MapGetByContent(m, key) ==
    LET same == {x \in DOMAIN m :
                   \/ x = key
                   \/ /\ {x, key} \subseteq Descriptors
                      /\ ProtoContent(x) = ProtoContent(key)}
    IN  IF same = {} THEN Undefined ELSE m[CHOOSE x \in same : TRUE]

\* Map.prototype.get / WeakMap.prototype.get
MapGet(m, key) == IF key \in DOMAIN m THEN m[key] ELSE Undefined

\* Map.prototype.set / WeakMap.prototype.set
MapSet(m, key, value) ==
    [x \in DOMAIN m \cup {key} |-> IF x = key THEN value ELSE m[x]]

EmptyMap == [x \in {} |-> Undefined]

\* ToBoolean of an identifier or of undefined: `!id` holds of undefined and ""
Falsy(x) == x = Undefined \/ x = ""

(***************************************************************************)
(* Values.                                                                 *)
(***************************************************************************)
Null == [k |-> "null"]
Bool(b) == [k |-> "bool", b |-> b]
Num(n) == [k |-> "num", n |-> n]
\* a number that is not finite (NaN, Infinity)
NaN == [k |-> "nan"]
Str(s) == [k |-> "str", s |-> s]
Arr(items) == [k |-> "arr", items |-> items]
Obj(proto, keys, vals) == [k |-> "obj", proto |-> proto, keys |-> keys, vals |-> vals]

IsObj(v) == v.k = "obj"
IsArr(v) == v.k = "arr"

\* Completion records: a call returns a value or throws
Normal(v) == [type |-> "normal", value |-> v]
Throw(e) == [type |-> "throw", value |-> e]
Threw(c) == c.type = "throw"

\* new Error("Unregistered type/prototype"), and the SyntaxError of JSON.parse
UnregisteredError == [k |-> "error", name |-> "Error", message |-> "Unregistered type/prototype"]
\* what JSON.stringify throws at an object it is already inside of
CircularError == [k |-> "error", name |-> "TypeError", message |-> "Converting circular structure to JSON"]
\* what the engine throws when the nested calls exhaust its call stack
StackError == [k |-> "error", name |-> "RangeError", message |-> "Maximum call stack size exceeded"]
SyntaxError == [k |-> "error", name |-> "SyntaxError", message |-> "not valid JSON"]

(***************************************************************************)
(* Own properties of ordinary objects.                                     *)
(***************************************************************************)
Digits == {"0", "1", "2", "3", "4", "5", "6", "7", "8", "9"}

DigitValue(c) == CHOOSE d \in 0..9 : ToString(d) = c

\* a canonical numeric string: an integer index key ("0", "7", "12", not "07")
IsIndexKey(key) ==
    /\ Len(key) > 0
    /\ \A i \in 1..Len(key) : SubSeq(key, i, i) \in Digits
    /\ (Len(key) > 1 => SubSeq(key, 1, 1) # "0")

RECURSIVE IndexValue(_)
IndexValue(key) ==
    IF Len(key) = 0 THEN 0
    ELSE 10 * IndexValue(SubSeq(key, 1, Len(key) - 1))
            + DigitValue(SubSeq(key, Len(key), Len(key)))

HasOwn(o, key) == \E i \in 1..Len(o.keys) : o.keys[i] = key

KeyPos(o, key) == CHOOSE i \in 1..Len(o.keys) : o.keys[i] = key

GetOwn(o, key) == o.vals[KeyPos(o, key)]

\* an object that lists its keys in the order of their creation, whatever
\* they look like
InsertPosAtEnd(o, key) == Len(o.keys) + 1

\* where OrdinaryOwnPropertyKeys lists a new key: integer indices first, in
\* ascending order, then the other keys in the order of their creation
InsertPos(o, key) ==
    IF IsIndexKey(key)
    THEN 1 + Cardinality({i \in 1..Len(o.keys) :
                 IsIndexKey(o.keys[i]) /\ IndexValue(o.keys[i]) < IndexValue(key)})
    ELSE Len(o.keys) + 1

InsertAt(seq, pos, x) ==
    SubSeq(seq, 1, pos - 1) \o <<x>> \o SubSeq(seq, pos, Len(seq))

RemoveAt(seq, pos) == SubSeq(seq, 1, pos - 1) \o SubSeq(seq, pos + 1, Len(seq))

\* o[key] = value on an ordinary object (CreateDataProperty)
SetProp(o, key, value) ==
    IF HasOwn(o, key)
    THEN [o EXCEPT !.vals[KeyPos(o, key)] = value]
    ELSE [o EXCEPT !.keys = InsertAt(o.keys, InsertPos(o, key), key),
                   !.vals = InsertAt(o.vals, InsertPos(o, key), value)]

\* delete o[key]
DeleteProp(o, key) ==
    IF HasOwn(o, key)
    THEN [o EXCEPT !.keys = RemoveAt(o.keys, KeyPos(o, key)),
                   !.vals = RemoveAt(o.vals, KeyPos(o, key))]
    ELSE o

\* Object.setPrototypeOf(o, proto)
SetPrototypeOf(o, proto) == [o EXCEPT !.proto = proto]

(***************************************************************************)
(* class Struct: the `_` accessor and toJSON.                              *)
(***************************************************************************)
RECURSIVE FirstRegistered(_)
\* the identifier of the nearest registered prototype on the chain from p
FirstRegistered(p) ==
    IF p = "null" THEN Undefined
    ELSE IF p \in DOMAIN PROTO_TO_ID THEN PROTO_TO_ID[p]
    ELSE FirstRegistered(ProtoParent(p))

\* a lookup that follows the prototype chain, as a property read would
LookupIdInherited(this) == FirstRegistered(this.proto)

\* Struct.PROTO_TO_ID.get(Object.getPrototypeOf(this))
LookupId(this) == MapGet(PROTO_TO_ID, this.proto)

\* get _(): the identifier registered for the prototype of `this`
GetUnderscore(this) ==
    LET id == LookupId(this)
    IN  IF Falsy(id) THEN Throw(UnregisteredError) ELSE Normal(Str(id))

\* the property read v._ : an own property first, then the inherited accessor
ReadUnderscore(v) ==
    IF HasOwn(v, "_") THEN Normal(GetOwn(v, "_"))
    ELSE IF IsStruct(v.proto) THEN GetUnderscore(v)
    ELSE Normal([k |-> "undefined"])

RECURSIVE CopyOwnSkipsNull(_, _, _)
\* the copy that leaves out the properties that hold null
CopyOwnSkipsNull(this, result, i) ==
    IF i > Len(this.keys) THEN result
    ELSE CopyOwnSkipsNull(this,
                          IF this.vals[i] = Null THEN result
                          ELSE SetProp(result, this.keys[i], this.vals[i]),
                          i + 1)

RECURSIVE CopyOwn(_, _, _)
\* for (const key of Object.keys(this)) result[key] = this[key], from key i on
CopyOwn(this, result, i) ==
    IF i > Len(this.keys) THEN result
    ELSE CopyOwn(this, SetProp(result, this.keys[i], this.vals[i]), i + 1)

\* toJSON that copies the own properties first and writes `_` last
toJSONTagLast(this) ==
    LET id == LookupId(this)
    IN  IF Falsy(id) THEN Throw(UnregisteredError)
        ELSE Normal(SetProp(CopyOwn(this, Obj(ObjectProto, <<>>, <<>>), 1), "_", Str(id)))

\* toJSON(): { _: id } followed by the own enumerable properties of `this`
toJSON(this) ==
    LET id == LookupId(this)
    IN  IF Falsy(id) THEN Throw(UnregisteredError)
        ELSE Normal(CopyOwn(this, Obj(ObjectProto, <<"_">>, <<Str(id)>>), 1))

\* a toJSON that writes the identifier into `this` as well
ThisAfterToJSONTagged(this) ==
    IF Falsy(LookupId(this)) THEN this ELSE SetProp(this, "_", Str(LookupId(this)))

\* `this` after toJSON(): the method reads `this` and assigns to `result` only
ThisAfterToJSON(this) == this

(***************************************************************************)
(* JSON.stringify: the value graph to text.                                *)
(***************************************************************************)
RECURSIVE EscapeSpan(_, _, _)
\* the characters i..j of s, `"` and `\` escaped with a backslash
EscapeSpan(s, i, j) ==
    IF i > j THEN ""
    ELSE IF i = j
    THEN LET c == SubSeq(s, i, i)
         IN  IF c = "\"" \/ c = "\\" THEN "\\" \o c ELSE c
    ELSE LET mid == (i + j) \div 2
         IN  EscapeSpan(s, i, mid) \o EscapeSpan(s, mid + 1, j)

\* QuoteJSONString
QuoteJSONString(s) == "\"" \o EscapeSpan(s, 1, Len(s)) \o "\""

\* an object whose toJSON property is callable: Struct.prototype is on its
\* prototype chain and no own property named toJSON hides the method
HasToJSON(v) == IsObj(v) /\ IsStruct(v.proto) /\ ~HasOwn(v, "toJSON")

\* a field that holds an object enclosing it: the object `up` levels up
\* (1: the object that has the field), as circular.self = circular
Ref(up) == [k |-> "ref", up |-> up]
IsRef(v) == v.k = "ref"

\* where the serializer is: the objects of the value graph that enclose the
\* value (chain), the keys that lead to it (path), the objects on the
\* serializer's stack, named by their paths (stack), and the nested calls
RootCtx == [chain |-> <<>>, path |-> <<>>, stack |-> {}, depth |-> 0]

\* a serializer that writes null for an object that encloses the value
ReferentNull(value, ctx) == Null

\* the object a field holds
Referent(value, ctx) ==
    IF IsRef(value) THEN ctx.chain[Len(ctx.chain) - value.up + 1] ELSE value

\* where that object is in the value graph
ReferentCtx(value, ctx) ==
    IF IsRef(value)
    THEN [ctx EXCEPT !.chain = SubSeq(ctx.chain, 1, Len(ctx.chain) - value.up),
                     !.path = SubSeq(ctx.path, 1, Len(ctx.chain) - value.up)]
    ELSE ctx

\* the serializer inside the object `source`: what is pushed on the stack is
\* source itself, or the new object its toJSON has returned
Inside(source, ctx) ==
    [chain |-> Append(ctx.chain, source),
     path |-> ctx.path,
     stack |-> IF HasToJSON(source) THEN ctx.stack ELSE ctx.stack \cup {ctx.path},
     depth |-> ctx.depth + 1]

\* at the member `key` of the object the serializer is inside
At(ctx, key) == [ctx EXCEPT !.path = Append(ctx.path, key)]

RECURSIVE SerializeJSONProperty(_, _), SerializeJSONArray(_, _, _), SerializeJSONObject(_, _, _)
\* the lexemes of one value; toJSON is called first where the value has one.
\* An object that is on the stack already is a cycle.
SerializeJSONProperty(held, at) ==
    LET value == Referent(held, at)
        ctx == ReferentCtx(held, at)
        c == IF HasToJSON(value) THEN toJSON(value) ELSE Normal(value)
    IN  IF ctx.depth > MaxCallStack THEN Throw(StackError)
        ELSE IF Threw(c) THEN c
        ELSE LET v == c.value
             IN  CASE v.k = "null" -> Normal(<<"null">>)
                   [] v.k = "bool" -> Normal(<<IF v.b THEN "true" ELSE "false">>)
                   [] v.k = "num" -> Normal(<<ToString(v.n)>>)
                   [] v.k = "nan" -> Normal(<<"null">>)
                   [] v.k = "str" -> Normal(<<QuoteJSONString(v.s)>>)
                   [] v.k = "arr" ->
                        IF ctx.path \in ctx.stack THEN Throw(CircularError)
                        ELSE LET body == SerializeJSONArray(v.items, 1, Inside(value, ctx))
                             IN  IF Threw(body) THEN body
                                 ELSE Normal(<<"[">> \o body.value \o <<"]">>)
                   [] v.k = "obj" ->
                        IF ~HasToJSON(value) /\ ctx.path \in ctx.stack
                        THEN Throw(CircularError)
                        ELSE LET body == SerializeJSONObject(v, 1, Inside(value, ctx))
                             IN  IF Threw(body) THEN body
                                 ELSE Normal(<<"{">> \o body.value \o <<"}">>)

\* the elements of an array from index i on, separated by commas
SerializeJSONArray(items, i, ctx) ==
    IF i > Len(items) THEN Normal(<<>>)
    ELSE LET head == SerializeJSONProperty(items[i], At(ctx, ToString(i - 1)))
         IN  IF Threw(head) THEN head
             ELSE LET rest == SerializeJSONArray(items, i + 1, ctx)
                  IN  IF Threw(rest) THEN rest
                      ELSE Normal(head.value
                                  \o (IF i < Len(items) THEN <<",">> ELSE <<>>)
                                  \o rest.value)

\* the members of an object from its i-th own key on, in enumeration order
SerializeJSONObject(o, i, ctx) ==
    IF i > Len(o.keys) THEN Normal(<<>>)
    ELSE LET head == SerializeJSONProperty(o.vals[i], At(ctx, o.keys[i]))
         IN  IF Threw(head) THEN head
             ELSE LET rest == SerializeJSONObject(o, i + 1, ctx)
                  IN  IF Threw(rest) THEN rest
                      ELSE Normal(<<QuoteJSONString(o.keys[i]), ":">> \o head.value
                                  \o (IF i < Len(o.keys) THEN <<",">> ELSE <<>>)
                                  \o rest.value)

\* JSON.stringify(value)
Stringify(value) == SerializeJSONProperty(value, RootCtx)

RECURSIVE AfterStringify(_)
\* the value graph after JSON.stringify(value): stringify assigns to no
\* object of the graph, it calls toJSON on every tagged value it reaches
AfterStringify(value) ==
    CASE IsArr(value) ->
           Arr([i \in 1..Len(value.items) |-> AfterStringify(value.items[i])])
      [] IsObj(value) ->
           LET this == IF HasToJSON(value) THEN ThisAfterToJSON(value) ELSE value
           IN  [this EXCEPT !.vals = [i \in 1..Len(this.vals) |-> AfterStringify(this.vals[i])]]
      [] OTHER -> value

(***************************************************************************)
(* JSON.parse: text to a tree of plain values.                             *)
(***************************************************************************)
Failed == [ok |-> FALSE, value |-> Null, next |-> 0]
Parsed(v, next) == [ok |-> TRUE, value |-> v, next |-> next]

\* how many backslashes stand right before character i of a string lexeme
BackslashesBefore(lex, i) ==
    IF i <= 2 \/ SubSeq(lex, i - 1, i - 1) # "\\" THEN 0
    ELSE CHOOSE n \in 1..(i - 2) :
           /\ \A c \in (i - n)..(i - 1) : SubSeq(lex, c, c) = "\\"
           /\ (i - n = 2 \/ SubSeq(lex, i - n - 1, i - n - 1) # "\\")

\* character i is the second character of an escape
Escaped(lex, i) == BackslashesBefore(lex, i) % 2 = 1

\* character i is a backslash that starts an escape
StartsEscape(lex, i) == SubSeq(lex, i, i) = "\\" /\ ~Escaped(lex, i)

RECURSIVE UnescapeSpan(_, _, _)
\* the characters i..j of a string lexeme without the escaping backslashes
UnescapeSpan(lex, i, j) ==
    IF i > j THEN ""
    ELSE IF i = j THEN (IF StartsEscape(lex, i) THEN "" ELSE SubSeq(lex, i, i))
    ELSE LET mid == (i + j) \div 2
         IN  UnescapeSpan(lex, i, mid) \o UnescapeSpan(lex, mid + 1, j)

\* a string lexeme: "..." where every `"` inside is escaped and every
\* backslash that starts an escape is followed by `"` or `\`
Unquote(lex) ==
    LET last == Len(lex) - 1
        ok == /\ Len(lex) >= 2
              /\ SubSeq(lex, 1, 1) = "\""
              /\ SubSeq(lex, Len(lex), Len(lex)) = "\""
              /\ \A i \in 2..last :
                    /\ SubSeq(lex, i, i) = "\"" => Escaped(lex, i)
                    /\ StartsEscape(lex, i) =>
                          (i < last /\ SubSeq(lex, i + 1, i + 1) \in {"\"", "\\"})
    IN  [ok |-> ok, s |-> IF ok THEN UnescapeSpan(lex, 2, last) ELSE ""]

IsStringLexeme(lex) == Unquote(lex).ok

\* a number lexeme: an optional minus sign and an integer without leading zeros
IsNumberLexeme(lex) ==
    IF Len(lex) > 0 /\ SubSeq(lex, 1, 1) = "-"
    THEN IsIndexKey(SubSeq(lex, 2, Len(lex)))
    ELSE IsIndexKey(lex)

NumberValue(lex) ==
    IF SubSeq(lex, 1, 1) = "-"
    THEN 0 - IndexValue(SubSeq(lex, 2, Len(lex)))
    ELSE IndexValue(lex)

RECURSIVE ParseValue(_, _), ParseElements(_, _, _), ParseMembers(_, _, _)
\* the JSON value that starts at lexeme i of the text
ParseValue(text, i) ==
    IF i > Len(text) THEN Failed
    ELSE LET lex == text[i]
         IN  CASE lex = "null" -> Parsed(Null, i + 1)
               [] lex = "true" -> Parsed(Bool(TRUE), i + 1)
               [] lex = "false" -> Parsed(Bool(FALSE), i + 1)
               [] lex = "[" ->
                    IF i + 1 <= Len(text) /\ text[i + 1] = "]"
                    THEN Parsed(Arr(<<>>), i + 2)
                    ELSE ParseElements(text, i + 1, <<>>)
               [] lex = "{" ->
                    IF i + 1 <= Len(text) /\ text[i + 1] = "}"
                    THEN Parsed(Obj(ObjectProto, <<>>, <<>>), i + 2)
                    ELSE ParseMembers(text, i + 1, Obj(ObjectProto, <<>>, <<>>))
               [] OTHER ->
                    IF IsNumberLexeme(lex) THEN Parsed(Num(NumberValue(lex)), i + 1)
                    ELSE LET str == Unquote(lex)
                         IN  IF str.ok THEN Parsed(Str(str.s), i + 1) ELSE Failed

\* value ("," value)* "]" from lexeme i on, after the elements in acc
ParseElements(text, i, acc) ==
    LET e == ParseValue(text, i)
    IN  IF ~e.ok \/ e.next > Len(text) THEN Failed
        ELSE IF text[e.next] = "]" THEN Parsed(Arr(Append(acc, e.value)), e.next + 1)
        ELSE IF text[e.next] = "," THEN ParseElements(text, e.next + 1, Append(acc, e.value))
        ELSE Failed

\* string ":" value ("," string ":" value)* "}" from lexeme i on; a key that
\* is repeated keeps its place and takes the last value
ParseMembers(text, i, acc) ==
    IF i + 1 > Len(text) \/ text[i + 1] # ":" THEN Failed
    ELSE LET key == Unquote(text[i])
             m == ParseValue(text, i + 2)
             o == SetProp(acc, key.s, m.value)
         IN  IF ~key.ok \/ ~m.ok \/ m.next > Len(text) THEN Failed
             ELSE IF text[m.next] = "}" THEN Parsed(o, m.next + 1)
             ELSE IF text[m.next] = "," THEN ParseMembers(text, m.next + 1, o)
             ELSE Failed

\* JSON.parse(text) without a reviver: the whole text is one value
ParseText(text) ==
    LET r == ParseValue(text, 1)
    IN  IF r.ok /\ r.next = Len(text) + 1 THEN Normal(r.value) ELSE Throw(SyntaxError)

(***************************************************************************)
(* Struct.parse: JSON.parse with the reviver that restores prototypes.     *)
(***************************************************************************)
\* typeof v._ === "string" on a value the reviver receives
HasStringTag(v) == IsObj(v) /\ HasOwn(v, "_") /\ GetOwn(v, "_").k = "str"

\* a reviver that restores the prototype and leaves the reserved key in place
ReviverKeepsTag(v) ==
    IF HasStringTag(v)
    THEN LET proto == MapGet(ID_TO_PROTO, GetOwn(v, "_").s)
         IN  IF proto # Undefined THEN SetPrototypeOf(v, proto) ELSE v
    ELSE v

\* a reviver that removes the reserved key and leaves the prototype alone
ReviverNoPrototype(v) ==
    IF HasStringTag(v)
    THEN LET proto == MapGet(ID_TO_PROTO, GetOwn(v, "_").s)
         IN  IF proto # Undefined THEN DeleteProp(v, "_") ELSE v
    ELSE v

\* a reviver that removes the reserved key of an unknown identifier too
ReviverDropsUnknownTag(v) ==
    IF HasStringTag(v)
    THEN LET proto == MapGet(ID_TO_PROTO, GetOwn(v, "_").s)
         IN  IF proto # Undefined
             THEN DeleteProp(SetPrototypeOf(v, proto), "_")
             ELSE DeleteProp(v, "_")
    ELSE v

\* a reviver that takes an empty identifier for a missing one
ReviverSkipsEmptyId(v) ==
    IF HasStringTag(v) /\ ~Falsy(GetOwn(v, "_").s)
    THEN LET proto == MapGet(ID_TO_PROTO, GetOwn(v, "_").s)
         IN  IF proto # Undefined
             THEN DeleteProp(SetPrototypeOf(v, proto), "_")
             ELSE v
    ELSE v

\* a reviver that returns null for a container without members
ReviverNullsEmpty(v) ==
    IF IsObj(v) /\ v.keys = <<>> THEN Null
    ELSE IF IsArr(v) /\ v.items = <<>> THEN Null
    ELSE IF HasStringTag(v)
    THEN LET proto == MapGet(ID_TO_PROTO, GetOwn(v, "_").s)
         IN  IF proto # Undefined
             THEN DeleteProp(SetPrototypeOf(v, proto), "_")
             ELSE v
    ELSE v

\* a reviver that makes a new object of the prototype and copies no field
ReviverFreshObject(v) ==
    IF HasStringTag(v)
    THEN LET proto == MapGet(ID_TO_PROTO, GetOwn(v, "_").s)
         IN  IF proto # Undefined THEN Obj(proto, <<>>, <<>>) ELSE v
    ELSE v

\* the reviver (_k, v) => ...
Reviver(v) ==
    IF HasStringTag(v)
    THEN LET id == GetOwn(v, "_").s
             proto == MapGet(ID_TO_PROTO, id)
         IN  IF proto # Undefined
             THEN DeleteProp(SetPrototypeOf(v, proto), "_")
             ELSE v
    ELSE v

RECURSIVE InternalizeSkipsArrays(_)
\* a walk that descends into keyed collections only
InternalizeSkipsArrays(val) ==
    CASE IsObj(val) ->
           Reviver([val EXCEPT !.vals =
                      [i \in 1..Len(val.vals) |-> InternalizeSkipsArrays(val.vals[i])]])
      [] OTHER -> Reviver(val)

RECURSIVE InternalizeJSONProperty(_)
\* the reviver walk: the elements and members of val first, then val itself
InternalizeJSONProperty(val) ==
    CASE IsArr(val) ->
           Reviver(Arr([i \in 1..Len(val.items) |-> InternalizeJSONProperty(val.items[i])]))
      [] IsObj(val) ->
           Reviver([val EXCEPT !.vals =
                      [i \in 1..Len(val.vals) |-> InternalizeJSONProperty(val.vals[i])]])
      [] OTHER -> Reviver(val)

(***************************************************************************)
(* The reviver walk of JSON.parse, one step at a time: a stack of frames,  *)
(* each the path of a node (the positions of its ancestors' members) and   *)
(* the position of the member to descend into next.                        *)
(***************************************************************************)
\* the elements of a sequence, the member values of a keyed collection
Children(node) ==
    IF IsArr(node) THEN node.items ELSE IF IsObj(node) THEN node.vals ELSE <<>>

RECURSIVE NodeAt(_, _)
NodeAt(tree, path) ==
    IF path = <<>> THEN tree ELSE NodeAt(Children(tree)[Head(path)], Tail(path))

RECURSIVE ReplaceAt(_, _, _)
\* holder[name] = newElement, at the end of path
ReplaceAt(tree, path, new) ==
    IF path = <<>> THEN new
    ELSE LET i == Head(path)
             sub == ReplaceAt(Children(tree)[i], Tail(path), new)
         IN  IF IsArr(tree) THEN [tree EXCEPT !.items[i] = sub]
             ELSE [tree EXCEPT !.vals[i] = sub]

\* the walk as it begins: nothing visited, the root on the stack
BeginWalk(json, tree) ==
    [op |-> "walk", arg |-> json, parsed |-> Normal(tree), root |-> tree,
     stack |-> <<[path |-> <<>>, next |-> 1]>>, visited |-> <<>>]

\* a walk that calls the reviver on a node when it reaches it, before its
\* members
WalkStepTopDown(w) ==
    LET f == w.stack[Len(w.stack)]
        node == NodeAt(w.root, f.path)
        rest == SubSeq(w.stack, 1, Len(w.stack) - 1)
    IN  IF f.next <= Len(Children(node))
        THEN LET path == Append(f.path, f.next)
             IN  [w EXCEPT !.root = ReplaceAt(w.root, path, Reviver(NodeAt(w.root, path))),
                           !.visited = Append(@, path),
                           !.stack = Append(@, [path |-> path, next |-> 1])]
        ELSE IF rest = <<>>
        THEN [op |-> "walked", arg |-> w.arg, parsed |-> w.parsed,
              root |-> Reviver(w.root), stack |-> <<>>,
              visited |-> Append(w.visited, <<>>), result |-> Normal(Reviver(w.root))]
        ELSE [w EXCEPT !.stack = [rest EXCEPT ![Len(rest)].next = @ + 1]]

\* one step of the walk: descend into the next member of the node on top of
\* the stack; when there is none left, call the reviver on the node, store
\* what it returns in the holder of the node and go back to the holder
WalkStep(w) ==
    LET f == w.stack[Len(w.stack)]
        node == NodeAt(w.root, f.path)
        rest == SubSeq(w.stack, 1, Len(w.stack) - 1)
    IN  IF f.next <= Len(Children(node))
        THEN [w EXCEPT !.stack = Append(@, [path |-> Append(f.path, f.next), next |-> 1])]
        ELSE LET root == ReplaceAt(w.root, f.path, Reviver(node))
                 visited == Append(w.visited, f.path)
             IN  IF rest = <<>>
                 THEN [op |-> "walked", arg |-> w.arg, parsed |-> w.parsed,
                       root |-> root, stack |-> <<>>, visited |-> visited,
                       result |-> Normal(root)]
                 ELSE [w EXCEPT !.root = root, !.visited = visited,
                                !.stack = [rest EXCEPT ![Len(rest)].next = @ + 1]]

\* a parse that catches the error of JSON.parse and returns null
StructParseCatching(json) ==
    LET tree == ParseText(json)
    IN  IF Threw(tree) THEN Normal(Null) ELSE Normal(InternalizeJSONProperty(tree.value))

\* static parse(json)
StructParse(json) ==
    LET tree == ParseText(json)
    IN  IF Threw(tree) THEN tree ELSE Normal(InternalizeJSONProperty(tree.value))

\* a parse that registers every identifier it meets and does not know
IdToProtoAfterParseLearns(m, json) ==
    LET met == {Unquote(json[i + 2]).s :
                  i \in {j \in 1..(Len(json) - 2) :
                           /\ json[j] = "\"_\""
                           /\ json[j + 1] = ":"
                           /\ IsStringLexeme(json[j + 2])}}
    IN  [id \in DOMAIN m \cup met |-> IF id \in DOMAIN m THEN m[id] ELSE StructProto]

\* ID_TO_PROTO after Struct.parse(json): parse calls ID_TO_PROTO.get only
IdToProtoAfterParse(m, json) == m

(***************************************************************************)
(* register.                                                               *)
(***************************************************************************)
\* Struct.ID_TO_PROTO.set(id, Ctor.prototype)
\* register that takes a second call with the same pair as a request to
\* remove the entry
RegisterIdToProtoToggles(m, Ctor, id) ==
    IF MapGet(m, id) = Prototype(Ctor)
    THEN [key \in DOMAIN m \ {id} |-> m[key]]
    ELSE MapSet(m, id, Prototype(Ctor))

\* register that stores the prototype Ctor.prototype inherits from
RegisterIdToProtoParent(m, Ctor, id) == MapSet(m, id, ProtoParent(Prototype(Ctor)))

\* register that keeps the prototype an identifier already has
RegisterIdToProtoFirstWins(m, Ctor, id) ==
    IF id \in DOMAIN m THEN m ELSE MapSet(m, id, Prototype(Ctor))

RegisterIdToProto(m, Ctor, id) == MapSet(m, id, Prototype(Ctor))

\* Struct.PROTO_TO_ID.set(Ctor.prototype, id)
\* register that keeps the identifier a prototype was first registered under
RegisterProtoToIdFirstWins(m, Ctor, id) ==
    IF Prototype(Ctor) \in DOMAIN m THEN m ELSE MapSet(m, Prototype(Ctor), id)

\* register that keeps the two maps inverse of each other: the prototypes
\* that had the identifier lose their entry
RegisterProtoToIdOneToOne(m, Ctor, id) ==
    LET kept == {p \in DOMAIN m : m[p] # id} \cup {Prototype(Ctor)}
    IN  [p \in kept |-> IF p = Prototype(Ctor) THEN id ELSE m[p]]

RegisterProtoToId(m, Ctor, id) == MapSet(m, Prototype(Ctor), id)

(***************************************************************************)
(* The inputs of the calls.                                                *)
(***************************************************************************)
SomeProto == Prototype("Some")
SubProto == Prototype("Sub")

\* new Some(x), new Sub(x): one own field v
NewSome(x) == Obj(SomeProto, <<"v">>, <<x>>)
NewSub(x) == Obj(SubProto, <<"v">>, <<x>>)
\* an instance without own fields (as new None() in the tests)
NewEmpty == Obj(SomeProto, <<>>, <<>>)
Plain(keys, vals) == Obj(ObjectProto, keys, vals)

Atoms == {Null, Num(42), NaN, Str("a\"b")}

\* an instance with an integer-like field name next to v, and an instance
\* with an own property named `_`
IntKeyed == Obj(SomeProto, <<"0", "v">>, <<Null, Num(42)>>)
OwnTag == Obj(SomeProto, <<"_">>, <<Str(ForeignId)>>)

Leaves == Atoms \cup {Arr(<<>>), NewEmpty, NewSub(Num(42)), IntKeyed, OwnTag}

\* the values built around x: a tagged value, a keyed collection, a sequence
Wrap(x) == {NewSome(x), Plain(<<"v">>, <<x>>), Arr(<<NewEmpty, x>>)}

RECURSIVE ValuesUpTo(_)
\* the values nested at most d deep
ValuesUpTo(d) ==
    IF d = 0 THEN Leaves
    ELSE LET inner == ValuesUpTo(d - 1)
         IN  Leaves \cup UNION {Wrap(x) : x \in inner}

RECURSIVE Nested(_)
\* Some(Some(...Some(42))), k layers
Nested(k) == IF k = 0 THEN Num(42) ELSE NewSome(Nested(k - 1))

\* the values handed to JSON.stringify
Values == ValuesUpTo(MaxDepth) \cup {Nested(k) : k \in 1..MaxNest}

\* the tagged values toJSON is called on directly (toJSON does not descend)
Instances == {v \in ValuesUpTo(1) : IsObj(v) /\ IsStruct(v.proto)}

\* the parsed documents the texts are made from
DocLeaves ==
    { Null, Bool(FALSE), Num(42), Str("a\"b"), Arr(<<>>), Plain(<<>>, <<>>),
      Plain(<<"v">>, <<Num(42)>>),
      Plain(<<"_">>, <<Num(42)>>),
      Plain(<<"_", "v">>, <<Str(""), Num(42)>>),
      Plain(<<"v", "_">>, <<Num(42), Str(SomeId)>>) }

\* the documents built around x: a tagged document of a registered
\* identifier, one of a foreign identifier, a sequence
DocWrap(x) ==
    { Plain(<<"_", "v">>, <<Str(SomeId), x>>),
      Plain(<<"_", "v">>, <<Str(ForeignId), x>>),
      Arr(<<x>>) }

RECURSIVE DocsUpTo(_)
DocsUpTo(d) ==
    IF d = 0 THEN DocLeaves
    ELSE LET inner == DocsUpTo(d - 1)
         IN  DocLeaves \cup UNION {DocWrap(x) : x \in inner}

\* the text of a document (no tagged value in it: no call of toJSON)
TextOf(doc) == Stringify(doc).value

\* the lexemes of the short texts
Lexemes == {"[", "]", ",", "42"}

RECURSIVE TextsOfLen(_)
TextsOfLen(n) ==
    IF n = 0 THEN {<<>>}
    ELSE {Append(t, x) : t \in TextsOfLen(n - 1), x \in Lexemes}

\* a text with one lexeme dropped or doubled
Damaged(t) ==
    {RemoveAt(t, i) : i \in 1..Len(t)} \cup {InsertAt(t, i, t[i]) : i \in 1..Len(t)}

\* the texts handed to Struct.parse: documents, damaged documents, every
\* short sequence of lexemes, a member with its key repeated, and the text
\* of the test "Hydrating invalid JSON throws error"
Texts ==
    {TextOf(d) : d \in DocsUpTo(MaxDepth)}
    \cup UNION {Damaged(TextOf(d)) : d \in DocLeaves \cup DocWrap(Num(42))}
    \cup UNION {TextsOfLen(n) : n \in 0..MaxTextLen}
    \cup { <<"{", "\"_\"", ":", QuoteJSONString(ForeignId), ",",
             "\"_\"", ":", QuoteJSONString(SomeId), "}">>,
           <<"{", "invalid", "json", "}">> }

(***************************************************************************)
(* The state machine: the registry and the call the program last made.     *)
(***************************************************************************)
Idle == [op |-> "idle"]

\* the register calls of the program: Some under each identifier string, Sub
\* under the identifier Some is registered under in the tests
Registrations == {<<"Some", id>> : id \in Ids} \cup {<<"Sub", SomeId>>}

Init ==
    /\ ID_TO_PROTO = EmptyMap
    /\ PROTO_TO_ID = EmptyMap
    /\ call = Idle
    /\ registered = <<>>

\* static register(Ctor, id)
Register(Ctor, id) ==
    /\ call.op \in {"idle", "register"}
    /\ ID_TO_PROTO' = RegisterIdToProto(ID_TO_PROTO, Ctor, id)
    /\ PROTO_TO_ID' = RegisterProtoToId(PROTO_TO_ID, Ctor, id)
    /\ call' = [op |-> "register", Ctor |-> Ctor, id |-> id]
    /\ registered' = Append(registered, <<Ctor, id>>)

\* a register call of the program, one of at most MaxRegisters
RegisterCall(Ctor, id) ==
    /\ Len(registered) < MaxRegisters
    /\ Register(Ctor, id)

\* const json = JSON.stringify(value); const revived = Struct.parse(json);
\* the second statement is not reached when the first one throws.
\* after is the value graph as the calls leave it.
\* parsed is what JSON.parse has read before it calls the reviver.
CallStringifyParse(value) ==
    /\ call.op = "idle"
    /\ LET json == Stringify(value)
       IN  call' = [op |-> "roundtrip", arg |-> value, json |-> json,
                    after |-> AfterStringify(value),
                    parsed |-> IF Threw(json) THEN json ELSE ParseText(json.value),
                    result |-> IF Threw(json) THEN json ELSE StructParse(json.value)]
    /\ UNCHANGED <<ID_TO_PROTO, PROTO_TO_ID, registered>>

\* instance.toJSON(), called on a tagged value directly
CallToJSON(this) ==
    /\ call.op = "idle"
    /\ call' = [op |-> "toJSON", arg |-> this, result |-> toJSON(this),
                 after |-> ThisAfterToJSON(this)]
    /\ UNCHANGED <<ID_TO_PROTO, PROTO_TO_ID, registered>>

\* Struct.parse(json) on a text that is given
CallParse(json) ==
    /\ call.op = "idle"
    /\ call' = [op |-> "parse", arg |-> json, parsed |-> ParseText(json),
                 result |-> StructParse(json)]
    /\ UNCHANGED <<ID_TO_PROTO, PROTO_TO_ID, registered>>

\* Struct.ID_TO_PROTO.get(id), called by the program itself
CallLookupDescriptor(id) ==
    /\ call.op = "idle"
    /\ call' = [op |-> "lookupDescriptor", arg |-> id,
                 result |-> Normal(MapGet(ID_TO_PROTO, id))]
    /\ UNCHANGED <<ID_TO_PROTO, PROTO_TO_ID, registered>>

\* Struct.PROTO_TO_ID.get(proto), called by the program itself
CallLookupIdentifier(proto) ==
    /\ call.op = "idle"
    /\ call' = [op |-> "lookupIdentifier", arg |-> proto,
                 result |-> Normal(MapGet(PROTO_TO_ID, proto))]
    /\ UNCHANGED <<ID_TO_PROTO, PROTO_TO_ID, registered>>

\* the caller goes on to its next statement
Return ==
    /\ call.op # "idle"
    /\ call' = Idle
    /\ UNCHANGED <<ID_TO_PROTO, PROTO_TO_ID, registered>>

Next ==
    \/ \E r \in Registrations : RegisterCall(r[1], r[2])
    \/ \E value \in Values : CallStringifyParse(value)
    \/ \E this \in Instances : CallToJSON(this)
    \/ \E json \in Texts : CallParse(json)
    \/ \E id \in Ids \cup {ForeignId} : CallLookupDescriptor(id)
    \/ \E proto \in Descriptors : CallLookupIdentifier(proto)
    \/ Return

Spec == Init /\ [][Next]_vars

\* a register call of a program that does nothing but register: the module
\* load of an application, one register call after the other
RegistryCall(Ctor, id) ==
    /\ Len(registered) < MaxRegistryCalls
    /\ Register(Ctor, id)

RegistryNext == \E Ctor \in Ctors, id \in Ids : RegistryCall(Ctor, id)

RegistrySpec == Init /\ [][RegistryNext]_vars

\* the program whose Struct.parse calls are followed reviver call by reviver
\* call: it registers, then parses the texts of documents
WalkRegister(Ctor, id) ==
    /\ Len(registered) < MaxWalkRegisters
    /\ Register(Ctor, id)

WalkTexts == {TextOf(d) : d \in DocsUpTo(MaxDepth)}

\* Struct.parse(json): JSON.parse has read the text and begins the walk
StartWalk(json) ==
    /\ call.op = "idle"
    /\ ~Threw(ParseText(json))
    /\ call' = BeginWalk(json, ParseText(json).value)
    /\ UNCHANGED <<ID_TO_PROTO, PROTO_TO_ID, registered>>

Walk ==
    /\ call.op = "walk"
    /\ call' = WalkStep(call)
    /\ UNCHANGED <<ID_TO_PROTO, PROTO_TO_ID, registered>>

\* Struct.parse has returned, or register has: the next statement
WalkReturn ==
    /\ call.op \in {"walked", "register"}
    /\ call' = Idle
    /\ UNCHANGED <<ID_TO_PROTO, PROTO_TO_ID, registered>>

WalkNext ==
    \/ \E r \in Registrations : WalkRegister(r[1], r[2])
    \/ \E json \in WalkTexts : StartWalk(json)
    \/ Walk
    \/ WalkReturn

WalkSpec == Init /\ [][WalkNext]_vars

\* the program that makes one encode or decode call twice, with other
\* calls in between: multiple hydrations of one text, as in the test
\* "Multiple hydrations work independently"
PairRegister(Ctor, id) ==
    /\ Len(registered) < MaxPairRegisters
    /\ Register(Ctor, id)

PairValues == ValuesUpTo(MaxPairDepth)
PairTexts == {TextOf(d) : d \in DocsUpTo(MaxPairDepth)}

\* the calls made in between
OtherValues == {NewSome(Num(42)), NewSub(Num(42))}
OtherTexts ==
    { TextOf(Plain(<<"_", "v">>, <<Str(SomeId), Num(42)>>)),
      TextOf(Plain(<<"_", "v">>, <<Str(ForeignId), Num(42)>>)),
      <<"{", "invalid", "json", "}">> }

\* JSON.stringify(arg) or Struct.parse(arg)
Codec(kind, arg) == IF kind = "encode" THEN Stringify(arg) ELSE StructParse(arg)

\* what the call leaves in the registry
CodecRegistry(kind, arg) ==
    /\ ID_TO_PROTO' = IF kind = "decode" THEN IdToProtoAfterParse(ID_TO_PROTO, arg)
                                          ELSE ID_TO_PROTO
    /\ UNCHANGED <<PROTO_TO_ID, registered>>

FirstCall(kind, arg) ==
    /\ call.op = "idle"
    /\ call' = [op |-> "first", kind |-> kind, arg |-> arg,
                 result |-> Codec(kind, arg), between |-> FALSE]
    /\ CodecRegistry(kind, arg)

OtherCall(kind, arg) ==
    /\ call.op = "first"
    /\ call' = [call EXCEPT !.between = TRUE]
    /\ CodecRegistry(kind, arg)

SecondCall ==
    /\ call.op = "first"
    /\ call' = [op |-> "second", kind |-> call.kind, arg |-> call.arg,
                 first |-> call.result, between |-> call.between,
                 result |-> Codec(call.kind, call.arg)]
    /\ CodecRegistry(call.kind, call.arg)

PairReturn ==
    /\ call.op \in {"second", "register"}
    /\ call' = Idle
    /\ UNCHANGED <<ID_TO_PROTO, PROTO_TO_ID, registered>>

PairNext ==
    \/ \E r \in Registrations : PairRegister(r[1], r[2])
    \/ \E value \in PairValues : FirstCall("encode", value)
    \/ \E json \in PairTexts : FirstCall("decode", json)
    \/ \E value \in OtherValues : OtherCall("encode", value)
    \/ \E json \in OtherTexts : OtherCall("decode", json)
    \/ SecondCall
    \/ PairReturn

PairSpec == Init /\ [][PairNext]_vars

\* the program that encodes value graphs with a cycle, as the test
\* "Circular references fail at JSON.stringify"
CycleRegister(Ctor, id) ==
    /\ Len(registered) < MaxCycleRegisters
    /\ Register(Ctor, id)

RECURSIVE Around(_, _)
\* x with d objects around it
Around(x, d) == IF d = 0 THEN {x} ELSE UNION {Wrap(y) : y \in Around(x, d - 1)}

\* const circular = { value: new Some(1) }; circular.self = circular;
Circular == Plain(<<"value", "self">>, <<NewSome(Num(1)), Ref(1)>>)

\* the value graphs with a cycle: a field nested d deep holds one of the d
\* objects around it
CyclicValues ==
    {Circular} \cup UNION {Around(Ref(up), d) : <<up, d>> \in {p \in (1..MaxDepth) \X (1..MaxDepth) : p[1] <= p[2]}}

\* JSON.stringify(value) on a value graph with a cycle
CallStringifyCyclic(value) ==
    /\ call.op = "idle"
    /\ call' = [op |-> "stringify", arg |-> value, result |-> Stringify(value)]
    /\ UNCHANGED <<ID_TO_PROTO, PROTO_TO_ID, registered>>

CycleReturn ==
    /\ call.op \in {"stringify", "register"}
    /\ call' = Idle
    /\ UNCHANGED <<ID_TO_PROTO, PROTO_TO_ID, registered>>

CycleNext ==
    \/ \E r \in Registrations : CycleRegister(r[1], r[2])
    \/ \E value \in CyclicValues : CallStringifyCyclic(value)
    \/ CycleReturn

CycleSpec == Init /\ [][CycleNext]_vars

(***************************************************************************)
(* Vocabulary of the properties.                                           *)
(***************************************************************************)
Min(a, b) == IF a < b THEN a ELSE b

RECURSIVE Pairs(_, _)
\* the nodes of two trees that lie on the same path, pair by pair
Pairs(d, r) ==
    {<<d, r>>} \cup
    (IF IsArr(d) /\ IsArr(r)
     THEN UNION {Pairs(d.items[i], r.items[i]) : i \in 1..Min(Len(d.items), Len(r.items))}
     ELSE IF IsObj(d) /\ IsObj(r)
     THEN UNION {Pairs(GetOwn(d, key), GetOwn(r, key)) :
                   key \in {d.keys[i] : i \in 1..Len(d.keys)}
                           \cap {r.keys[i] : i \in 1..Len(r.keys)}}
     ELSE {})

\* every node of a value
Nodes(v) == {p[1] : p \in Pairs(v, v)}

IsInstance(v) == IsObj(v) /\ IsStruct(v.proto)
IsPlain(v) == IsObj(v) /\ v.proto = ObjectProto

\* a decode has returned a value
Decoded == call.op \in {"parse", "roundtrip"} /\ ~Threw(call.result)
\* the nodes of the parsed text, each with what decode made of it
DecodedPairs == Pairs(call.parsed.value, call.result.value)

\* the JSON grammar, by spans of lexemes
IsLiteral(lex) ==
    lex \in {"null", "true", "false"} \/ IsNumberLexeme(lex) \/ IsStringLexeme(lex)

RECURSIVE IsValueSpan(_, _, _), IsElementsSpan(_, _, _), IsMembersSpan(_, _, _)
IsValueSpan(t, i, j) ==
    \/ i = j /\ IsLiteral(t[i])
    \/ i < j /\ t[i] = "[" /\ t[j] = "]" /\ (j = i + 1 \/ IsElementsSpan(t, i + 1, j - 1))
    \/ i < j /\ t[i] = "{" /\ t[j] = "}" /\ (j = i + 1 \/ IsMembersSpan(t, i + 1, j - 1))

IsElementsSpan(t, i, j) ==
    /\ i <= j
    /\ \/ IsValueSpan(t, i, j)
       \/ \E c \in (i + 1)..(j - 1) :
             t[c] = "," /\ IsValueSpan(t, i, c - 1) /\ IsElementsSpan(t, c + 1, j)

IsMembersSpan(t, i, j) ==
    /\ i + 2 <= j
    /\ IsStringLexeme(t[i])
    /\ t[i + 1] = ":"
    /\ \/ IsValueSpan(t, i + 2, j)
       \/ \E c \in (i + 3)..(j - 1) :
             t[c] = "," /\ IsValueSpan(t, i + 2, c - 1) /\ IsMembersSpan(t, c + 1, j)

\* the text is one JSON value
ValidJSON(t) == Len(t) >= 1 /\ IsValueSpan(t, 1, Len(t))

(***************************************************************************)
(* C1  Round-trip identity.                                                *)
(***************************************************************************)
\* the Serializable Value universe of the claim: every tagged value is of a
\* registered type, and no keyed collection and no tagged value has an own
\* field named `_`
InUniverse(v) ==
    \A n \in Nodes(v) :
        IsObj(n) => /\ ~HasOwn(n, "_")
                    /\ IsStruct(n.proto) => n.proto \in DOMAIN PROTO_TO_ID

\* the identifier registered for the type of a tagged value leads back to
\* that type, and the value has no own property named `_`
TagLeadsBack(n) ==
    /\ n.proto \in DOMAIN PROTO_TO_ID
    /\ MapGet(ID_TO_PROTO, PROTO_TO_ID[n.proto]) = n.proto
    /\ ~HasOwn(n, "_")

Faithful(v) ==
    \A n \in Nodes(v) :
        /\ n.k # "nan"
        /\ IsObj(n) => IF IsStruct(n.proto) THEN TagLeadsBack(n) ELSE ~HasOwn(n, "_")

Restored(r) == IsObj(r) /\ r.proto # ObjectProto

SameField(d, r) ==
    CASE IsArr(d) -> IsArr(r) /\ Len(r.items) = Len(d.items)
      [] IsObj(d) -> IsObj(r)
      [] OTHER -> r = d

UnknownTag(d) == HasStringTag(d) /\ GetOwn(d, "_").s \notin DOMAIN ID_TO_PROTO

\* C3: a node whose `_` holds an identifier that is not registered does not
\* make decode fail, stays a plain keyed collection, keeps `_` with its
\* value and keeps every other field.
C3_UnknownIdentifierPassThrough ==
    /\ (call.op = "parse" /\ ValidJSON(call.arg)) => ~Threw(call.result)
    /\ Decoded =>
         \A p \in DecodedPairs :
             UnknownTag(p[1]) =>
               /\ IsPlain(p[2])
               /\ p[2].keys = p[1].keys
               /\ GetOwn(p[2], "_") = GetOwn(p[1], "_")
               /\ \A i \in 1..Len(p[1].vals) : SameField(p[1].vals[i], p[2].vals[i])

\* a document of a foreign identifier around one of a registered identifier:
\* the inner one is restored, the outer one is left as it was
C3_Witness ==
    /\ call.op = "parse"
    /\ call.result = Normal(Plain(<<"_", "v">>, <<Str(ForeignId), NewSome(Num(42))>>))

(***************************************************************************)
(* C4  Encode failure on unregistered type.                                *)
(***************************************************************************)
Unregistered(n) == IsInstance(n) /\ n.proto \notin DOMAIN PROTO_TO_ID

C5_MalformedTextRaises ==
    [][(call'.op = "parse" /\ ~ValidJSON(call'.arg))
         => /\ call'.result = Throw(SyntaxError)
            /\ ID_TO_PROTO' = ID_TO_PROTO
            /\ PROTO_TO_ID' = PROTO_TO_ID]_vars

\* the text of the test "Hydrating invalid JSON throws error", parsed with
\* two types registered
C5_Witness ==
    /\ call.op = "parse"
    /\ call.arg = <<"{", "invalid", "json", "}">>
    /\ ~ValidJSON(call.arg)
    /\ Threw(call.result)
    /\ Cardinality(DOMAIN ID_TO_PROTO) = 2

(***************************************************************************)
(* C6  Duplicate registration, last write wins.                            *)
(***************************************************************************)
\* the place of the last register call whose Ctor (c = 1) or id (c = 2) is x,
\* 0 when there is none
LastIndex(c, x) ==
    LET S == {i \in 1..Len(registered) : registered[i][c] = x}
    IN  IF S = {} THEN 0 ELSE CHOOSE i \in S : \A j \in S : j <= i

\* the identifier of the last register call for Ctor, the prototype of the
\* last register call for id
LastId(Ctor) ==
    IF LastIndex(1, Ctor) = 0 THEN Undefined ELSE registered[LastIndex(1, Ctor)][2]
LastProto(id) ==
    IF LastIndex(2, id) = 0 THEN Undefined
    ELSE Prototype(registered[LastIndex(2, id)][1])

CtorOf(proto) == CHOOSE Ctor \in Ctors : Prototype(Ctor) = proto

\* an encode has returned a text: the nodes of the value, each with the
\* node of the text written for it
Encoded == call.op = "roundtrip" /\ ~Threw(call.json)
EncodedPairs == Pairs(call.arg, call.parsed.value)

\* C6: after any register calls, lookupIdentifier(d) is the identifier of
\* the last register call for d and lookupDescriptor(i) is the type of the
\* last register call for i; every encode writes the identifier registered
\* last for the type of the value, every decode restores the type
\* registered last for the identifier of the document.
C6_LastWriteWins ==
    /\ \A Ctor \in Ctors : MapGet(PROTO_TO_ID, Prototype(Ctor)) = LastId(Ctor)
    /\ \A id \in Ids \cup {ForeignId} : MapGet(ID_TO_PROTO, id) = LastProto(id)
    /\ (call.op = "toJSON" /\ ~Threw(call.result) /\ ~HasOwn(call.arg, "_"))
         => GetOwn(call.result.value, "_") = Str(LastId(CtorOf(call.arg.proto)))
    /\ Encoded =>
         \A p \in EncodedPairs :
             (IsInstance(p[1]) /\ ~HasOwn(p[1], "_"))
               => GetOwn(p[2], "_") = Str(LastId(CtorOf(p[1].proto)))
    /\ Decoded =>
         \A p \in DecodedPairs :
             HasStringTag(p[1]) =>
               IF LastProto(GetOwn(p[1], "_").s) = Undefined THEN IsPlain(p[2])
               ELSE p[2].proto = LastProto(GetOwn(p[1], "_").s)

\* Some was registered under one identifier and then under another: encode
\* writes the second, and decode of a document of the first still restores
\* Some
C6_Witness ==
    /\ registered = <<<<"Some", SomeId>>, <<"Some", "a-b-c-d-e">>>>
    /\ \/ /\ call.op = "toJSON"
          /\ call.result = Normal(Plain(<<"_", "v">>, <<Str("a-b-c-d-e"), Num(42)>>))
       \/ /\ call.op = "parse"
          /\ call.arg = TextOf(Plain(<<"_", "v">>, <<Str(SomeId), Num(42)>>))
          /\ call.result = Normal(NewSome(Num(42)))

(***************************************************************************)
(* C7  register is idempotent.                                             *)
(***************************************************************************)
\* C7: a register call that repeats the pair of the register call right
\* before it leaves ID_TO_PROTO and PROTO_TO_ID as that call left them.
C7_RegisterIdempotent ==
    [][(call.op = "register" /\ call'.op = "register"
          /\ call'.Ctor = call.Ctor /\ call'.id = call.id)
         => (ID_TO_PROTO' = ID_TO_PROTO /\ PROTO_TO_ID' = PROTO_TO_ID)]_vars

\* the repeated call came after a call that had registered the same type
\* under another identifier, whose entry is still in ID_TO_PROTO
C7_Witness ==
    /\ Len(registered) = 3
    /\ registered[1] = <<"Some", SomeId>>
    /\ registered[2] = <<"Some", "">>
    /\ registered[3] = registered[2]
    /\ call = [op |-> "register", Ctor |-> "Some", id |-> ""]
    /\ DOMAIN ID_TO_PROTO = {SomeId, ""}
    /\ PROTO_TO_ID[SomeProto] = ""

(***************************************************************************)
(* C8  Unregistered Type is the only encode-time error.                    *)
(***************************************************************************)
\* register has been called for the type of the tagged value
HasBeenRegistered(n) == \E i \in 1..Len(registered) : Prototype(registered[i][1]) = n.proto

\* C8 as claimed: encode of a value whose type has been registered, under
\* whatever identifier string, and whose tagged values are all of registered
\* types, returns and does not raise "Unregistered type".
C8_EncodeSucceedsAsClaimed ==
    /\ (call.op = "toJSON" /\ HasBeenRegistered(call.arg)) => ~Threw(call.result)
    /\ (call.op = "roundtrip"
          /\ \A n \in Nodes(call.arg) : IsInstance(n) => HasBeenRegistered(n))
         => ~Threw(call.json)

(***************************************************************************)
(* C9  Tagged Document invariant.                                          *)
(***************************************************************************)
KeySet(o) == {o.keys[i] : i \in 1..Len(o.keys)}

RECURSIVE EncodedAs(_, _, _)
\* d is the document JSON.stringify writes for the value v: a tagged value
\* becomes a keyed collection of `_` and its own fields, `_` holding the
\* identifier registered last for its type unless `_` is an own field; a
\* number that is not finite becomes null. With deep = FALSE the fields are
\* not descended into, as in the object toJSON itself returns.
EncodedAs(v, d, deep) ==
    CASE IsObj(v) ->
           /\ IsPlain(d)
           /\ Len(d.keys) = Cardinality(KeySet(d))
           /\ KeySet(d) = KeySet(v) \cup (IF IsInstance(v) THEN {"_"} ELSE {})
           /\ (IsInstance(v) /\ ~HasOwn(v, "_"))
                => GetOwn(d, "_") = Str(LastId(CtorOf(v.proto)))
           /\ \A key \in KeySet(v) :
                 IF deep THEN EncodedAs(GetOwn(v, key), GetOwn(d, key), deep)
                 ELSE GetOwn(d, key) = GetOwn(v, key)
      [] IsArr(v) ->
           /\ IsArr(d)
           /\ Len(d.items) = Len(v.items)
           /\ \A i \in 1..Len(v.items) : EncodedAs(v.items[i], d.items[i], deep)
      [] v = NaN -> d = Null
      [] OTHER -> d = v

\* C9 as claimed: in every tagged document encode produces, `_` holds a
\* string of the canonical 8-4-4-4-12 grouped-hex form that is the
\* identifier registered for the type of the value, whatever own fields the
\* value has.
C9_CanonicalTagAsClaimed ==
    /\ (call.op = "toJSON" /\ ~Threw(call.result))
         => /\ GetOwn(call.result.value, "_") = Str(LastId(CtorOf(call.arg.proto)))
            /\ IsCanonicalUUID(GetOwn(call.result.value, "_").s)
    /\ Encoded =>
         \A p \in EncodedPairs :
             IsInstance(p[1]) =>
               /\ GetOwn(p[2], "_") = Str(LastId(CtorOf(p[1].proto)))
               /\ IsCanonicalUUID(GetOwn(p[2], "_").s)

\* C9 amended: in every tagged document encode produces, after any register
\* calls, `_` holds the identifier string registered last for the type of
\* the value, whatever its syntax, unless the value has an own field named
\* `_`: then `_` holds the encoding of that field.
C9_TaggedDocumentTag ==
    /\ (call.op = "toJSON" /\ ~Threw(call.result))
         => /\ IsPlain(call.result.value)
            /\ GetOwn(call.result.value, "_") =
                 (IF HasOwn(call.arg, "_") THEN GetOwn(call.arg, "_")
                  ELSE Str(LastId(CtorOf(call.arg.proto))))
    /\ Encoded =>
         \A p \in EncodedPairs :
             IsInstance(p[1]) =>
               /\ IsPlain(p[2])
               /\ HasOwn(p[2], "_")
               /\ IF HasOwn(p[1], "_")
                  THEN EncodedAs(GetOwn(p[1], "_"), GetOwn(p[2], "_"), TRUE)
                  ELSE GetOwn(p[2], "_") = Str(LastId(CtorOf(p[1].proto)))

\* a tagged document whose `_` is not of the canonical form, inside the
\* document of a value whose own `_` took the place of the identifier
C9_Witness ==
    /\ Encoded
    /\ LastId("Some") = "a-b-c-d-e"
    /\ ~IsCanonicalUUID(LastId("Some"))
    /\ call.arg = Arr(<<NewEmpty, OwnTag>>)
    /\ call.parsed.value
         = Arr(<<Plain(<<"_">>, <<Str("a-b-c-d-e")>>), Plain(<<"_">>, <<Str(ForeignId)>>)>>)

(***************************************************************************)
(* C10 Encode shape.                                                       *)
(***************************************************************************)
\* C10 as claimed: the document of a value of a registered type has the keys
\* `_` and the own keys of the value, `_` maps to the identifier registered
\* for the type of the value, and the fields are encoded recursively.
C10_EncodeShapeAsClaimed ==
    /\ (call.op = "toJSON" /\ ~Threw(call.result))
         => /\ EncodedAs(call.arg, call.result.value, FALSE)
            /\ GetOwn(call.result.value, "_") = Str(LastId(CtorOf(call.arg.proto)))
    /\ Encoded =>
         /\ EncodedAs(call.arg, call.parsed.value, TRUE)
         /\ \A p \in EncodedPairs :
                IsInstance(p[1]) => GetOwn(p[2], "_") = Str(LastId(CtorOf(p[1].proto)))

\* C10 amended: the document of a value of a registered type has exactly the
\* keys `_` and the own keys of the value, `_` maps to the identifier
\* registered for the type of the value unless `_` is an own field of the
\* value (then to the encoding of that field), and each field is encoded
\* recursively, so that a tagged value nested k levels deep yields k nested
\* tagged documents.
C10_EncodeShape ==
    /\ (call.op = "toJSON" /\ ~Threw(call.result))
         => EncodedAs(call.arg, call.result.value, FALSE)
    /\ Encoded => EncodedAs(call.arg, call.parsed.value, TRUE)

\* Some(Some(Some(42))) encoded as three nested documents {"_": id, "v": inner}
C10_Witness ==
    /\ Encoded
    /\ call.arg = NewSome(NewSome(NewSome(Num(42))))
    /\ LET Doc(inner) == Plain(<<"_", "v">>, <<Str(SomeId), inner>>)
       IN  call.parsed.value = Doc(Doc(Doc(Num(42))))

(***************************************************************************)
(* C11 Restoration of a known identifier.                                  *)
(***************************************************************************)
KnownTag(d) == HasStringTag(d) /\ GetOwn(d, "_").s \in DOMAIN ID_TO_PROTO

RECURSIVE RestoredAs(_, _)
\* r is the restoration of the parsed node d: a keyed collection whose `_`
\* holds a registered identifier becomes a value of lookupDescriptor of that
\* identifier with the other fields of d, in their order, each restored;
\* every other keyed collection stays plain with all its fields, each
\* restored; a sequence is restored element by element
RestoredAs(d, r) ==
    CASE IsArr(d) ->
           /\ IsArr(r)
           /\ Len(r.items) = Len(d.items)
           /\ \A i \in 1..Len(d.items) : RestoredAs(d.items[i], r.items[i])
      [] IsObj(d) ->
           /\ IsObj(r)
           /\ IF KnownTag(d)
              THEN /\ r.proto = ID_TO_PROTO[GetOwn(d, "_").s]
                   /\ r.keys = SelectSeq(d.keys, LAMBDA key : key # "_")
              ELSE /\ r.proto = ObjectProto
                   /\ r.keys = d.keys
           /\ \A i \in 1..Len(r.keys) :
                 RestoredAs(GetOwn(d, r.keys[i]), r.vals[i])
      [] OTHER -> r = d

\* C11: every keyed-collection node of the decoded text whose `_` holds a
\* string with an entry in ID_TO_PROTO becomes a value whose prototype is
\* that entry and whose own fields are the fields of the node other than
\* `_`, each with its restored value; none is added, dropped or changed.
C11_KnownIdentifierRestored ==
    Decoded => \A p \in DecodedPairs : KnownTag(p[1]) => RestoredAs(p[1], p[2])

\* a text that encode does not write (the reserved key comes last), restored
\* inside a document of a foreign identifier
C11_Witness ==
    /\ call.op = "parse"
    /\ call.parsed = Normal(Plain(<<"_", "v">>,
                         <<Str(ForeignId), Plain(<<"v", "_">>, <<Num(42), Str(SomeId)>>)>>))
    /\ MapGet(ID_TO_PROTO, SomeId) = SubProto
    /\ call.result = Normal(Plain(<<"_", "v">>, <<Str(ForeignId), NewSub(Num(42))>>))

(***************************************************************************)
(* C12 Primitives and empty containers pass through decode.                *)
(***************************************************************************)
IsPrimitive(v) == v.k \in {"null", "bool", "num", "str"}

\* the value a text of one literal, of [] or of {} stands for
Denoted(text) ==
    CASE text = <<"null">> -> Null
      [] text = <<"false">> -> Bool(FALSE)
      [] text = <<"42">> -> Num(42)
      [] text = <<"\"a\\\"b\"">> -> Str("a\"b")
      [] text = <<"[", "]">> -> Arr(<<>>)
      [] text = <<"{", "}">> -> Plain(<<>>, <<>>)

Denoting ==
    { <<"null">>, <<"false">>, <<"42">>, <<"\"a\\\"b\"">>,
      <<"[", "]">>, <<"{", "}">> }

\* C12: decode of the text of null, a boolean, a number or a string returns
\* that value, [] decodes to an empty sequence and {} to an empty keyed
\* collection, at the root and at every place inside the text, and a keyed
\* collection without `_` comes back plain, with its keys and with every
\* field as restored.
C12_PrimitivesAndEmptyPassThrough ==
    /\ (call.op = "parse" /\ call.arg \in Denoting)
         => call.result = Normal(Denoted(call.arg))
    /\ Decoded =>
         \A p \in DecodedPairs :
             /\ IsPrimitive(p[1]) => p[2] = p[1]
             /\ (IsArr(p[1]) /\ p[1].items = <<>>) => p[2] = Arr(<<>>)
             /\ (IsObj(p[1]) /\ p[1].keys = <<>>) => p[2] = Plain(<<>>, <<>>)
             /\ (IsObj(p[1]) /\ ~HasOwn(p[1], "_"))
                  => /\ IsPlain(p[2])
                     /\ p[2].keys = p[1].keys
                     /\ \A i \in 1..Len(p[1].vals) :
                           RestoredAs(p[1].vals[i], p[2].vals[i])

\* the text {} decoded to an empty keyed collection with a type registered
C12_Witness ==
    /\ call.op = "parse"
    /\ call.arg = <<"{", "}">>
    /\ call.result = Normal(Plain(<<>>, <<>>))
    /\ call.result # Normal(Null)
    /\ ID_TO_PROTO # EmptyMap

(***************************************************************************)
(* C13 Sequences are restored element-wise.                                *)
(***************************************************************************)
\* C13: a sequence of the decoded text comes back as a sequence of the same
\* length whose i-th element is the restoration of the i-th element of the
\* text, also when the sequence lies in a sequence; after encode, the i-th
\* element has the type of the i-th element of the encoded sequence where
\* the identifier of that type leads back to it.
C13_SequencesElementWise ==
    /\ Decoded =>
         \A p \in DecodedPairs :
             IsArr(p[1]) =>
               /\ IsArr(p[2])
               /\ Len(p[2].items) = Len(p[1].items)
               /\ \A i \in 1..Len(p[1].items) : RestoredAs(p[1].items[i], p[2].items[i])
    /\ (Encoded /\ Decoded) =>
         \A p \in Pairs(call.arg, call.result.value) :
             IsArr(p[1]) =>
               /\ IsArr(p[2])
               /\ Len(p[2].items) = Len(p[1].items)
               /\ \A i \in 1..Len(p[1].items) :
                     (IsInstance(p[1].items[i]) /\ TagLeadsBack(p[1].items[i]))
                       => /\ IsObj(p[2].items[i])
                          /\ p[2].items[i].proto = p[1].items[i].proto

\* a sequence in a sequence, each with a tagged value in it, came back with
\* its lengths, its order and its types
C13_Witness ==
    /\ Encoded
    /\ call.arg = Arr(<<NewEmpty, Arr(<<NewEmpty, Num(42)>>)>>)
    /\ call.result = Normal(call.arg)

(***************************************************************************)
(* C14 Registry lookups are total.                                         *)
(***************************************************************************)
\* C14: in every registry state, ID_TO_PROTO.get(i) returns, for every
\* identifier i, the prototype registered last for i or undefined when
\* there is none; PROTO_TO_ID.get(d) returns, for every descriptor d, the
\* identifier registered last for d or undefined when d was never passed to
\* register, whatever descriptor of the same content is registered; neither
\* raises.
C14_LookupsTotal ==
    /\ call.op = "lookupDescriptor"
         => /\ ~Threw(call.result)
            /\ call.result.value = LastProto(call.arg)
            /\ call.result.value \in Protos \cup {Undefined}
    /\ call.op = "lookupIdentifier"
         => /\ ~Threw(call.result)
            /\ call.result.value =
                 (IF \E Ctor \in Ctors : Prototype(Ctor) = call.arg
                  THEN LastId(CtorOf(call.arg)) ELSE Undefined)
            /\ call.result.value \in Ids \cup {Undefined}

\* Some is registered, the class declared like Some is looked up and is not
\* found
C14_Witness ==
    /\ call.op = "lookupIdentifier"
    /\ call.arg = TwinProto
    /\ ProtoContent(TwinProto) = ProtoContent(SomeProto)
    /\ MapGet(PROTO_TO_ID, SomeProto) = SomeId
    /\ call.result = Normal(Undefined)

(***************************************************************************)
(* C15 Bottom-up restoration order.                                        *)
(***************************************************************************)
RECURSIVE PathsOf(_)
\* the paths of the nodes of a tree
PathsOf(tree) ==
    {<<>>} \cup UNION {{<<i>> \o q : q \in PathsOf(Children(tree)[i])} :
                         i \in 1..Len(Children(tree))}

Range(seq) == {seq[i] : i \in 1..Len(seq)}

\* the node at path q lies inside the node at path p
Below(q, p) == Len(q) > Len(p) /\ SubSeq(q, 1, Len(p)) = p

\* C15: in one decode call, when the reviver is called on a node, it has been
\* called on every node inside that node and not on the node itself, and
\* every member of the node already holds its restored value; the call on
\* the root is the last one, and what it returns is what decode returns.
C15_BottomUpOrder ==
    [][(call.op = "walk" /\ Len(call'.visited) = Len(call.visited) + 1)
         => LET p == call'.visited[Len(call'.visited)]
                tree == call.parsed.value
            IN  /\ p \in PathsOf(tree)
                /\ p \notin Range(call.visited)
                /\ \A q \in PathsOf(tree) : Below(q, p) => q \in Range(call.visited)
                /\ \A i \in 1..Len(Children(NodeAt(tree, p))) :
                      RestoredAs(NodeAt(tree, Append(p, i)),
                                 Children(NodeAt(call.root, p))[i])
                /\ call'.op = "walked"
                     => /\ p = <<>>
                        /\ Range(call'.visited) = PathsOf(tree)
                        /\ call'.result = Normal(call'.root)
                        /\ call'.result = StructParse(call.arg)]_vars

\* a tagged document in a tagged document: the inner one was restored
\* before the outer one, the root last
C15_Witness ==
    /\ call.op = "walked"
    /\ call.parsed.value =
         Plain(<<"_", "v">>, <<Str(SomeId), Plain(<<"_", "v">>, <<Str(SomeId), Num(42)>>)>>)
    /\ call.visited = << <<1>>, <<2, 1>>, <<2, 2>>, <<2>>, <<>> >>
    /\ call.result = Normal(NewSome(NewSome(Num(42))))

(***************************************************************************)
(* C16 Encode key order.                                                   *)
(***************************************************************************)
NotIndexNorTag(key) == ~IsIndexKey(key) /\ key # "_"

\* C16 as claimed: the keys of the document of a tagged value are `_` first,
\* then the own fields of the value in their enumeration order, whatever the
\* field names look like.
C16_TagFirstAsClaimed ==
    /\ (call.op = "toJSON" /\ ~Threw(call.result))
         => call.result.value.keys
              = <<"_">> \o SelectSeq(call.arg.keys, LAMBDA key : key # "_")
    /\ Encoded =>
         \A p \in EncodedPairs :
             IsInstance(p[1])
               => p[2].keys = <<"_">> \o SelectSeq(p[1].keys, LAMBDA key : key # "_")

\* the keys of the document of the tagged value v, in order
DocumentKeys(v) ==
    SelectSeq(v.keys, IsIndexKey) \o <<"_">> \o SelectSeq(v.keys, NotIndexNorTag)

\* C16 amended: the keys of the document of a tagged value are the own
\* fields whose names are integer indices, in ascending order, then `_`,
\* then the other own fields in the value's own-field enumeration order;
\* `_` is the first key exactly when no own field name is an integer index.
C16_EncodeKeyOrder ==
    /\ (call.op = "toJSON" /\ ~Threw(call.result))
         => call.result.value.keys = DocumentKeys(call.arg)
    /\ Encoded =>
         /\ \A p \in EncodedPairs : IsInstance(p[1]) => p[2].keys = DocumentKeys(p[1])
         /\ IsInstance(call.arg)
              => call.json.value[2] = QuoteJSONString(DocumentKeys(call.arg)[1])

\* the text written for a value with the own fields "0" and v begins with
\* the key "0", not with `_`
C16_Witness ==
    /\ Encoded
    /\ call.arg = IntKeyed
    /\ SubSeq(call.json.value, 1, 6) = <<"{", "\"0\"", ":", "null", ",", "\"_\"">>

C19_CyclicInputFails ==
    call.op = "stringify" => Threw(call.result)

\* the graph of the test, Some being registered: its tagged value is
\* encoded, then the field that holds the graph itself raises the TypeError
C19_Witness ==
    /\ call.op = "stringify"
    /\ call.arg = Circular
    /\ MapGet(PROTO_TO_ID, SomeProto) = SomeId
    /\ call.result = Throw(CircularError)

(***************************************************************************)
(* C20 Registry entries are never removed.                                 *)
(***************************************************************************)
\* C20: every step of the program keeps every key of ID_TO_PROTO and every
\* key of PROTO_TO_ID (the value under a key may change), and a step that
\* changes either map is a register call.
C20_EntriesNeverRemoved ==
    [][ /\ DOMAIN ID_TO_PROTO \subseteq DOMAIN ID_TO_PROTO'
        /\ DOMAIN PROTO_TO_ID \subseteq DOMAIN PROTO_TO_ID'
        /\ (<<ID_TO_PROTO, PROTO_TO_ID>>' # <<ID_TO_PROTO, PROTO_TO_ID>>
              => call'.op = "register") ]_vars

\* Some's prototype is still found under its identifier after the
\* identifier was given to Sub and a text was decoded
C20_Witness ==
    /\ registered = << <<"Some", SomeId>>, <<"Sub", SomeId>> >>
    /\ call.op = "parse"
    /\ MapGet(PROTO_TO_ID, SomeProto) = SomeId
    /\ MapGet(PROTO_TO_ID, SubProto) = SomeId
    /\ MapGet(ID_TO_PROTO, SomeId) = SubProto

(***************************************************************************)
(* C21 The two registry maps stay coupled.                                 *)
(***************************************************************************)
\* C21 as claimed: after any register calls, PROTO_TO_ID.get(d) = i implies
\* ID_TO_PROTO.get(i) = d and ID_TO_PROTO.get(i) = d implies
\* PROTO_TO_ID.get(d) = i: the maps are mutually inverse.
C21_MapsInverseAsClaimed ==
    /\ \A d \in DOMAIN PROTO_TO_ID : MapGet(ID_TO_PROTO, PROTO_TO_ID[d]) = d
    /\ \A i \in DOMAIN ID_TO_PROTO : MapGet(PROTO_TO_ID, ID_TO_PROTO[i]) = i

\* no register call after the k-th one has named x in position c (1: the
\* constructor, 2: the identifier)
NotNamedAfter(c, x, k) == \A j \in (k + 1)..Len(registered) : registered[j][c] # x

\* C21 amended: after any register calls, PROTO_TO_ID.get(d) = i implies
\* ID_TO_PROTO.get(i) = d unless a register call after the last one for d
\* has given i to another type, and ID_TO_PROTO.get(i) = d implies
\* PROTO_TO_ID.get(d) = i unless a register call after the last one for i
\* has given d another identifier; the pair of the last register call is
\* coupled in both directions.
C21_MapsCoupled ==
    /\ \A d \in DOMAIN PROTO_TO_ID :
         NotNamedAfter(2, PROTO_TO_ID[d], LastIndex(1, CtorOf(d)))
           => MapGet(ID_TO_PROTO, PROTO_TO_ID[d]) = d
    /\ \A i \in DOMAIN ID_TO_PROTO :
         NotNamedAfter(1, CtorOf(ID_TO_PROTO[i]), LastIndex(2, i))
           => MapGet(PROTO_TO_ID, ID_TO_PROTO[i]) = i
    /\ Len(registered) > 0 =>
         LET last == registered[Len(registered)]
         IN  /\ MapGet(ID_TO_PROTO, last[2]) = Prototype(last[1])
             /\ MapGet(PROTO_TO_ID, Prototype(last[1])) = last[2]

\* Some was registered under one identifier and then under another: the
\* second pair is coupled, the first identifier still leads to Some
C21_Witness ==
    /\ registered = << <<"Some", SomeId>>, <<"Some", "a-b-c-d-e">> >>
    /\ MapGet(PROTO_TO_ID, SomeProto) = "a-b-c-d-e"
    /\ MapGet(ID_TO_PROTO, "a-b-c-d-e") = SomeProto
    /\ MapGet(ID_TO_PROTO, SomeId) = SomeProto

(***************************************************************************)
(* C22 Inverse bijections under the intended discipline.                   *)
(***************************************************************************)
\* every register call so far has named a constructor and an identifier
\* that no earlier call has named
Disciplined ==
    \A j, k \in 1..Len(registered) :
        j < k => /\ registered[j][1] # registered[k][1]
                 /\ registered[j][2] # registered[k][2]

\* C22: when every register call has used a type and an identifier not
\* registered before, ID_TO_PROTO and PROTO_TO_ID hold the registered pairs
\* and nothing else, each the inverse of the other; the identifier toJSON
\* writes for a value of prototype d leads back to d in ID_TO_PROTO, in the
\* object toJSON returns and in the text of every encode, and decode of
\* that text gives the node the prototype d.
C22_InverseBijections ==
    Disciplined =>
      /\ DOMAIN ID_TO_PROTO = {registered[k][2] : k \in 1..Len(registered)}
      /\ DOMAIN PROTO_TO_ID = {Prototype(registered[k][1]) : k \in 1..Len(registered)}
      /\ \A i \in DOMAIN ID_TO_PROTO : MapGet(PROTO_TO_ID, ID_TO_PROTO[i]) = i
      /\ \A d \in DOMAIN PROTO_TO_ID : MapGet(ID_TO_PROTO, PROTO_TO_ID[d]) = d
      /\ (call.op = "toJSON" /\ ~Threw(call.result))
           => MapGet(ID_TO_PROTO, LookupId(call.arg)) = call.arg.proto
      /\ Encoded =>
           \A p \in EncodedPairs :
               (IsInstance(p[1]) /\ ~HasOwn(p[1], "_"))
                 => MapGet(ID_TO_PROTO, GetOwn(p[2], "_").s) = p[1].proto
      /\ (Encoded /\ ~Threw(call.result)) =>
           \A p \in Pairs(call.arg, call.result.value) :
               (IsInstance(p[1]) /\ ~HasOwn(p[1], "_"))
                 => IsObj(p[2]) /\ p[2].proto = p[1].proto

\* Some and Sub are registered under identifiers of their own: a Some that
\* holds a Sub is encoded and decoded to a Some that holds a Sub
C22_Witness ==
    /\ registered = << <<"Some", "a-b-c-d-e">>, <<"Sub", SomeId>> >>
    /\ call.op = "roundtrip"
    /\ call.arg = NewSome(NewSub(Num(42)))
    /\ call.result = Normal(NewSome(NewSub(Num(42))))

(***************************************************************************)
(* C23 Restored and unrestored nodes are distinguishable.                  *)
(***************************************************************************)
\* the prototypes ID_TO_PROTO holds
RegisteredProtos == {ID_TO_PROTO[id] : id \in DOMAIN ID_TO_PROTO}

\* C23: every keyed-collection node of the value Struct.parse returns either
\* has a prototype held in ID_TO_PROTO and no own property `_`, or has
\* Object.prototype; and a node with Object.prototype whose own `_` holds a
\* string holds one that is no key of ID_TO_PROTO.
C23_RestoredDistinguishable ==
    Decoded =>
      \A r \in Nodes(call.result.value) :
          IsObj(r) =>
            /\ \/ r.proto \in RegisteredProtos /\ ~HasOwn(r, "_")
               \/ IsPlain(r)
            /\ (IsPlain(r) /\ HasStringTag(r))
                 => GetOwn(r, "_").s \notin DOMAIN ID_TO_PROTO

\* a document of a foreign identifier holding one of the empty identifier,
\* which is registered: the outer node stays plain with its `_`, the inner
\* one is restored and has none
C23_Witness ==
    /\ call.op = "parse"
    /\ MapGet(ID_TO_PROTO, "") = SomeProto
    /\ call.result =
         Normal(Plain(<<"_", "v">>, <<Str(ForeignId), NewSome(Num(42))>>))
    /\ call.parsed.value =
         Plain(<<"_", "v">>,
               <<Str(ForeignId), Plain(<<"_", "v">>, <<Str(""), Num(42)>>)>>)

====
